---- MODULE Spec2Model ----
(***************************************************************************)
(* vcat: cat with a visual progress bar (src/vcat.c).                      *)
(*                                                                         *)
(* Spec       the whole program: main(), cat(), run_test() and the         *)
(*            renderer, with the environment (read/write results, the      *)
(*            terminal width, the clock) chosen nondeterministically.      *)
(* SpecRender one call of update_progress() on inputs drawn from bounded   *)
(*            sets: the renderer as a function of its inputs.              *)
(*                                                                         *)
(* Text is a sequence of one-character strings.  Bytes written to the      *)
(* error stream are a sequence of tokens: a visible character, or one of   *)
(* the control sequences below.  Bytes written to standard output are      *)
(* named by their source and offset: a segment [src, lo, hi] stands for    *)
(* bytes lo..hi-1 of argument src.                                         *)
(*                                                                         *)
(* TLC's integers are 32 bits wide, the program's byte counts 64: the      *)
(* products the renderer forms in 64 bits are computed by MulDivParts,     *)
(* which never forms a number above 2^31.                                  *)
(***************************************************************************)
EXTENDS Integers, Sequences, FiniteSets, TLC

VARIABLES
    pc,          \* position of the program
    argv,        \* argv[1..argc-1], each argument with what the file system holds for it
    argi,        \* main's loop index i
    failed,      \* main's failed
    exit_code,   \* the process exit status, -1 while running
    ws_col,      \* ws.ws_col
    st_size,     \* st.st_size, in units of st_unit bytes
    st_unit,     \* 1, or TEST_UNIT after run_test stored its 5000000000
    time_start,  \* time_start
    filename,    \* filename of cat() / run_test() / update_progress()
    pos,         \* pos of cat() / run_test()
    nread,       \* nread of cat()
    now,         \* the clock read by time(NULL)
    term,        \* what ioctl(TIOCGWINSZ) reports now: a width, or IoctlFail
    n_resize,    \* how many times the terminal changed so far
    off,         \* read offset into the current source
    stdin_off,   \* read offset of standard input (one stream for every "-")
    stdin_len,   \* bytes standard input holds before end-of-file
    out,         \* tokens the last step wrote to the error stream
    stdout,      \* everything written to standard output, as segments
    frame,       \* locals of the last update_progress() call
    calls,       \* update_progress() calls of the current transfer: <<point, pos, width drawn or 0>>
    log,         \* error stream history: frames (runs collapsed), newlines, messages
    res,         \* per argument: how it ended and how much was read and written
    order,       \* the arguments in the order main() dispatched them
    drawn_width  \* width of the last frame actually drawn (startup width before any)

vars == <<pc, argv, argi, failed, exit_code, ws_col, st_size, st_unit, time_start,
          filename, pos, nread, now, term, n_resize, off, stdin_off, stdin_len, out,
          stdout, frame, calls, log, res, order, drawn_width>>

-----------------------------------------------------------------------------
(* Program constants *)

MAX_WIDTH == 9999
BUFFER_SIZE == 65536
MIB_SHIFT == 20
ETA_LIMIT == 6000

\* run_test(): st.st_size = 5000000000LL and pos += 456789012.  Both exceed or
\* approach 2^31, so run_test's byte counts are kept in units of
\* TEST_UNIT = gcd(5000000000, 456789012) = 4 bytes.
TEST_UNIT == 4
TEST_SIZE == 1250000000
TEST_STEP == 114197253

IoctlFail == -1

\* Control sequences and the two line enders.
CLEAR == "ESC[0J"
GREEN == "ESC[1;37;42m"
BLUE == "ESC[44m"
RESET == "ESC[0m"
CR == "CR"
NL == "NL"
NUL == "NUL"
Controls == {CLEAR, GREEN, BLUE, RESET, CR, NL}

\* Messages (each is one line ending in a newline).
MSG_PERROR == "MSG:perror"
MSG_ISDIR == "MSG:Is a directory."
MSG_USAGE == "MSG:usage/startup"
Messages == {MSG_PERROR, MSG_ISDIR, MSG_USAGE}

TEST_FILENAME ==
    <<"/","s","o","m","e","/","e","x","a","m","p","l","e","/",
      "f","i","l","e","n","a","m","e",".","x","y","z">>
STDIN_NAME == <<"<","s","t","d","i","n",">">>

-----------------------------------------------------------------------------
(* Bounds of the model *)

MaxArgs == 2
MaxResize == 2

-----------------------------------------------------------------------------
(* Arithmetic *)

Min(a, b) == IF a < b THEN a ELSE b
Max(a, b) == IF a > b THEN a ELSE b

\* pos >> 20
Shr20(p) == p \div (2 ^ MIB_SHIFT)

RECURSIVE MulQR(_, _, _)
\* <<q, m>> with a * r = q * c + m and 0 <= m < c, for 0 <= r < c.
MulQR(a, r, c) ==
    IF a = 0 THEN <<0, 0>>
    ELSE LET h == MulQR(a \div 2, r, c)
             d == IF h[2] >= c - h[2]
                  THEN <<2 * h[1] + 1, h[2] - (c - h[2])>>
                  ELSE <<2 * h[1], 2 * h[2]>>
         IN  IF a % 2 = 0 THEN d
             ELSE IF d[2] >= c - r
                  THEN <<d[1] + 1, d[2] - (c - r)>>
                  ELSE <<d[1], d[2] + r>>

\* The 64-bit quotient a * b / c (a, b >= 0, c > 0, a < 32768) as
\* hi * 65536 + lo.
MulDivParts(a, b, c) ==
    LET q0 == b \div c
        q1 == MulQR(a, b % c, c)[1]
    IN  [hi |-> a * (q0 \div 65536), lo |-> a * (q0 % 65536) + q1]

\* parts / u, for u dividing 65536.
PartsDiv(p, u) ==
    [hi |-> p.hi \div u, lo |-> ((p.hi % u) * 65536 + p.lo) \div u]

PartsLess(p, n) == p.hi = 0 /\ p.lo < n

\* The quotient as a number, where it is below 2^31.
PartsValue(p) == p.hi * 65536 + p.lo

\* Conversion of the 64-bit quotient to int: the low 32 bits, signed.
PartsToInt(p) ==
    LET h == (p.hi + p.lo \div 65536) % 65536
        l == p.lo % 65536
    IN  IF h >= 32768 THEN (h - 65536) * 65536 + l ELSE h * 65536 + l

-----------------------------------------------------------------------------
(* Text *)

DigitChar(d) == <<"0","1","2","3","4","5","6","7","8","9">>[d + 1]

RECURSIVE Dec(_)
Dec(n) ==
    IF n < 0 THEN <<"-">> \o Dec(-n)
    ELSE IF n < 10 THEN <<DigitChar(n)>>
    ELSE Dec(n \div 10) \o <<DigitChar(n % 10)>>

RECURSIVE PadLeft(_, _, _)
PadLeft(s, width, c) == IF Len(s) >= width THEN s ELSE PadLeft(<<c>> \o s, width, c)

\* printf's %2d, %02d and %3d.
FmtD(n, width, c) == PadLeft(Dec(n), width, c)

\* TRAILER "[ETA %2d:%02d] %3d%%"
Trailer(minutes, seconds, percentage) ==
    <<"[","E","T","A"," ">> \o FmtD(minutes, 2, " ") \o <<":">>
        \o FmtD(seconds, 2, "0") \o <<"]"," ">> \o FmtD(percentage, 3, " ") \o <<"%">>

Take(s, n) == SubSeq(s, 1, Min(n, Len(s)))

HasSlash(s) == \E k \in 1..Len(s) : s[k] = "/"
FirstSlash(s) == CHOOSE k \in 1..Len(s) : s[k] = "/" /\ \A j \in 1..(k - 1) : s[j] # "/"

RECURSIVE StripPath(_, _)
\* write_filename()'s loop: drop leading path components while strlen >= len.
StripPath(fname, len) ==
    IF Len(fname) >= len /\ HasSlash(fname)
    THEN StripPath(SubSeq(fname, FirstSlash(fname) + 1, Len(fname)), len)
    ELSE fname

\* write_filename(): the characters snprintf(buf, len, "%s", ...) stores before
\* the terminating NUL.
write_filename(fname, len) == Take(StripPath(fname, len), len - 1)

-----------------------------------------------------------------------------
(* update_progress(): src/vcat.c lines 80-143 *)

\* pos < st.st_size, with st.st_size = size * unit bytes.
PosLess(p, size, unit) == p \div unit < size

\* Line 85: the render is skipped.  q is what the ioctl reports (IoctlFail:
\* the call fails), w is ws.ws_col after the call.
InvalidWidth(q, w) == q = IoctlFail \/ w <= 0 \/ w > MAX_WIDTH

\* ws.ws_col after the ioctl on line 85: a failed call stores nothing.
WsAfterIoctl(ws, q) == IF q = IoctlFail THEN ws ELSE q

\* Clearing only when the line got narrower.
NeedClearNarrower(previous_width, w) == previous_width > w

\* Line 88.
NeedClear(previous_width, w) == previous_width # w

\* The quotient without the test pos < st.st_size.
PercentageUnclamped(p, size, unit) ==
    IF size > 0
    THEN PartsValue(PartsDiv(MulDivParts(100, p, size), unit))
    ELSE 100

\* Lines 94-97.
Percentage(p, size, unit) ==
    IF size > 0 /\ PosLess(p, size, unit)
    THEN PartsValue(PartsDiv(MulDivParts(100, p, size), unit))
    ELSE 100

\* The estimate without the + 1.
EtaRemainingFloor(p, size, unit, elapsed) ==
    IF unit = 1
    THEN MulDivParts(elapsed, size - p, p)
    ELSE LET q == MulDivParts(elapsed * unit, size, p)
         IN  [hi |-> q.hi, lo |-> q.lo - elapsed]

\* Line 105: remaining = elapsed * (st.st_size - pos) / pos + 1, as parts.
\* With unit > 1 the difference st.st_size - pos does not fit TLC's integers;
\* there elapsed * (S - pos) / pos is computed as elapsed * S / pos - elapsed,
\* the same number since elapsed * pos / pos = elapsed exactly.
EtaRemaining(p, size, unit, elapsed) ==
    IF unit = 1
    THEN LET q == MulDivParts(elapsed, size - p, p)
         IN  [hi |-> q.hi, lo |-> q.lo + 1]
    ELSE LET q == MulDivParts(elapsed * unit, size, p)
         IN  [hi |-> q.hi, lo |-> q.lo - elapsed + 1]

\* Lines 100-110: <<minutes, seconds>>.
Eta(p, size, unit, elapsed) ==
    IF ~PosLess(p, size, unit) THEN <<0, 0>>
    ELSE IF p > 0
    THEN LET remaining == EtaRemaining(p, size, unit, elapsed)
         IN  IF PartsLess(remaining, ETA_LIMIT)
             THEN <<PartsValue(remaining) \div 60, PartsValue(remaining) % 60>>
             ELSE <<99, 99>>
    ELSE <<99, 99>>

\* The trailer's length without the cut to the width.
TrailerSizeUncut(len, w) == len

\* Lines 114-117: snprintf(NULL, 0, TRAILER, ...) cut to the width.
TrailerSize(len, w) == IF len > w THEN w ELSE len

\* Line 118.
FilenameSize(w, trailer_size) == w - trailer_size - 2

\* The cross-over point taken from the displayed percentage.
CrossOverFromPercentage(w, p, size, unit) == (w * Percentage(p, size, unit)) \div 100

\* Lines 126-129: the cross-over point, an int.
CrossOver(w, p, size, unit) ==
    IF size > 0 THEN PartsToInt(PartsDiv(MulDivParts(w, p, size), unit)) ELSE w

\* One store into buffer: text and its terminating NUL, from index at on.
Store(at, text) == [at |-> at, text |-> text \o <<NUL>>]

\* Lines 119-122: the stores after the memset, in program order.  snprintf
\* with size n stores at most n - 1 characters and the NUL.
BufferStores(fname, w, trailer) ==
    LET trailer_size == TrailerSize(Len(trailer), w)
        filename_size == FilenameSize(w, trailer_size)
    IN  (IF filename_size > 0
         THEN <<Store(1, write_filename(fname, filename_size + 1))>>
         ELSE <<>>)
        \o <<Store(w - trailer_size, Take(trailer, trailer_size))>>

Covers(s, i) == s.at <= i /\ i < s.at + Len(s.text)

\* buffer[i] after memset(buffer, '\0', w) and the stores.
BufferAt(stores, i) ==
    LET hits == {k \in 1..Len(stores) : Covers(stores[k], i)}
    IN  IF hits = {} THEN NUL
        ELSE LET k == CHOOSE k \in hits : \A j \in hits : j <= k
             IN  stores[k].text[i - stores[k].at + 1]

\* Lowest and highest index of buffer written by the memset and the stores.
BufferLo(stores) ==
    LET S == {0} \cup {stores[k].at : k \in 1..Len(stores)}
    IN  CHOOSE m \in S : \A n \in S : m <= n
BufferHi(stores, w) ==
    LET S == {w - 1} \cup {stores[k].at + Len(stores[k].text) - 1 : k \in 1..Len(stores)}
    IN  CHOOSE m \in S : \A n \in S : m >= n

\* Line 135: what the loop prints for column i.
Column(stores, i) == LET c == BufferAt(stores, i) IN IF c = NUL THEN " " ELSE c

\* Lines 125-140: the tokens of one frame.
FrameTokens(stores, w, x, clear) ==
    LET line == [k \in 1..w |-> Column(stores, k - 1)]
    IN  (IF clear THEN <<CLEAR>> ELSE <<>>) \o <<GREEN>>
        \o (IF 0 <= x /\ x < w
            THEN SubSeq(line, 1, x) \o <<BLUE>> \o SubSeq(line, x + 1, w)
            ELSE line)
        \o <<CR, RESET>>

NoFrame(ws, p) ==
    [ws |-> ws, drawn |-> FALSE, out |-> <<>>, clear |-> FALSE, width |-> 0,
     percentage |-> 0, minutes |-> 0, seconds |-> 0, x |-> 0,
     buf_lo |-> 0, buf_hi |-> 0, p |-> p]

\* update_progress(filename, pos) with ws.ws_col = ws before the call, the
\* ioctl reporting q, st.st_size = size * unit and time(NULL) - time_start =
\* elapsed: the new ws.ws_col, the tokens written and the locals.
update_progress(fname, p, size, unit, ws, q, elapsed) ==
    LET w == WsAfterIoctl(ws, q)
    IN  IF InvalidWidth(q, w) THEN NoFrame(w, p)
        ELSE LET clear == NeedClear(ws, w)
                 percentage == Percentage(p, size, unit)
                 eta == Eta(p, size, unit, elapsed)
                 stores == BufferStores(fname, w, Trailer(eta[1], eta[2], percentage))
                 x == CrossOver(w, p, size, unit)
             IN  [ws |-> w, drawn |-> TRUE,
                  out |-> FrameTokens(stores, w, x, clear),
                  clear |-> clear, width |-> w,
                  percentage |-> percentage, minutes |-> eta[1], seconds |-> eta[2],
                  x |-> x, buf_lo |-> BufferLo(stores), buf_hi |-> BufferHi(stores, w),
                  p |-> p]

-----------------------------------------------------------------------------
(* The environment *)

\* Widths the terminal takes in Spec: the query failing, out of range, narrower
\* than the trailer, wider than the trailer.
Terms == {IoctlFail, 0, 12, 20}

\* Content lengths: empty, a few bytes, and 16 full blocks plus 3 bytes.
BigLen == 2 ^ MIB_SHIFT + 3
StdinLens == {BigLen}

FILE_NAME == <<"d","i","r","/","f">>

Arg(kind, size, len) == [kind |-> kind, size |-> size, len |-> len]

\* What an argument can be: the self-test token, "-", a path stat() fails on,
\* a directory, a file open() fails on, and regular files (size: st_size at
\* stat time, len: bytes read() delivers before end-of-file).
ArgChoices ==
    { Arg("test", 0, 0), Arg("stdin", 0, 0), Arg("nostat", 0, 0),
      Arg("dir", 4096, 0), Arg("noopen", 3, 0),
      Arg("file", 3, 3) }

ArgLists == UNION {[1..n -> ArgChoices] : n \in 0..MaxArgs}

\* Offsets at which the environment may deliver a short read, take a second
\* over a read, fail a read, take only half of a write or fail a write, and
\* the short counts it may deliver.
ShortAt == {0}
ShortSizes == {1}
SlowReadAt == {15 * BUFFER_SIZE}
ReadErrorAt == {3, BUFFER_SIZE}
ShortWriteAt == {0}
WriteErrorAt == {BUFFER_SIZE}

\* The update_progress() calls of a transfer (first, second, ...) before which
\* the terminal may have changed.
ResizeCalls == {1, 2, 3}

\* What the ioctl can report at a call: the terminal as it was, or changed.
IoctlResults ==
    {term} \cup (IF n_resize < MaxResize /\ Len(calls) + 1 \in ResizeCalls
                 THEN Terms ELSE {})

\* Seconds a read() at offset o may take.
ReadDelays(o) == {0} \cup (IF o \in SlowReadAt THEN {1} ELSE {})

\* Results of read(fd, buffer, sizeof(buffer)) at offset o of a source of len
\* bytes: -1 (error), 0 (end-of-file) or a count.
ReadResults(o, len) ==
    (IF o \in ReadErrorAt THEN {-1} ELSE {})
    \cup (IF o >= len THEN {0}
          ELSE LET full == Min(BUFFER_SIZE, len - o)
               IN  {full} \cup (IF o \in ShortAt
                                THEN {n \in ShortSizes : n < full} ELSE {}))

\* Results of write(FD_OUT, buffer, n) with o bytes of the source written so far.
WriteResults(o, n) ==
    {n} \cup (IF o \in ShortWriteAt THEN {n \div 2} ELSE {})
        \cup (IF o \in WriteErrorAt THEN {-1} ELSE {})

-----------------------------------------------------------------------------
(* Bookkeeping *)

\* Per argument: st how it ended, base the offset its reading began at, rd the
\* bytes read() delivered, full the bytes of the blocks write() took whole, part
\* the bytes write() took of a block it did not take whole.
NoRes == [st |-> "pending", base |-> 0, rd |-> 0, full |-> 0, part |-> 0]

LogAdd(lg, k, a) ==
    IF k = "F" /\ lg # <<>> /\ lg[Len(lg)] = [k |-> "F", a |-> a]
    THEN lg
    ELSE Append(lg, [k |-> k, a |-> a])

\* Standard output after k more bytes of source src, from offset lo.
StdoutAppend(so, src, lo, k) ==
    IF k <= 0 THEN so
    ELSE IF so # <<>> /\ so[Len(so)].src = src /\ so[Len(so)].hi = lo
    THEN [so EXCEPT ![Len(so)].hi = lo + k]
    ELSE Append(so, [src |-> src, lo |-> lo, hi |-> lo + k])

DisplayName(a) ==
    IF a.kind = "test" THEN TEST_FILENAME
    ELSE IF a.kind = "stdin" THEN STDIN_NAME
    ELSE FILE_NAME

CurLen == IF argv[argi].kind = "stdin" THEN stdin_len ELSE argv[argi].len

\* The effects of one update_progress() call whose result is r.
Rendered(r, point, fresh) ==
    /\ ws_col' = r.ws
    /\ out' = r.out
    /\ frame' = r
    /\ calls' = Append(IF fresh THEN <<>> ELSE calls, <<point, r.p, r.width>>)
    /\ log' = IF r.drawn THEN LogAdd(log, "F", argi) ELSE log
    /\ drawn_width' = IF r.drawn THEN r.width ELSE drawn_width

Query(q) ==
    /\ term' = q
    /\ n_resize' = IF q = term THEN n_resize ELSE n_resize + 1

Message(m) ==
    /\ out' = <<m>>
    /\ log' = LogAdd(log, "M", argi)

-----------------------------------------------------------------------------
(* main(): lines 197-249 *)

Init ==
    /\ pc = "start"
    /\ argv \in ArgLists
    /\ argi = 1
    /\ failed = 0
    /\ exit_code = -1
    /\ ws_col = 0
    /\ st_size = 0
    /\ st_unit = 1
    /\ time_start = 0
    /\ filename = <<>>
    /\ pos = 0
    /\ nread = 0
    /\ now = 0
    /\ term \in Terms
    /\ n_resize = 0
    /\ off = 0
    /\ stdin_off = 0
    /\ stdin_len \in StdinLens
    /\ out = <<>>
    /\ stdout = <<>>
    /\ frame = NoFrame(0, 0)
    /\ calls = <<>>
    /\ log = <<>>
    /\ res = [j \in 1..Len(argv) |-> NoRes]
    /\ order = <<>>
    /\ drawn_width = 0

\* Lines 198-217: the startup checks.
StartupOk(tty_out, tty_err) ==
    /\ Len(argv) >= 1
    /\ ~tty_out
    /\ tty_err
    /\ term # IoctlFail
    /\ ~(term <= 0 \/ term > MAX_WIDTH)

Startup ==
    /\ pc = "start"
    /\ \E tty_out, tty_err \in BOOLEAN :
        IF StartupOk(tty_out, tty_err)
        THEN /\ pc' = "main"
             /\ ws_col' = term
             /\ drawn_width' = term
             /\ out' = <<>>
             /\ exit_code' = exit_code
        ELSE /\ pc' = "exit"
             /\ ws_col' = WsAfterIoctl(ws_col, IF Len(argv) >= 1 /\ ~tty_out /\ tty_err
                                               THEN term ELSE IoctlFail)
             /\ drawn_width' = drawn_width
             /\ out' = <<MSG_USAGE>>
             /\ exit_code' = 1
    /\ UNCHANGED <<order, argv, argi, failed, st_size, st_unit, time_start, filename, pos,
                   nread, now, term, n_resize, off, stdin_off, stdin_len, stdout, frame, calls, log, res>>

\* Line 220 with i = argc, and line 248.
MainExit ==
    /\ pc = "main"
    /\ argi > Len(argv)
    /\ pc' = "done"
    /\ exit_code' = failed
    /\ out' = <<>>
    /\ UNCHANGED <<order, argv, argi, failed, ws_col, st_size, st_unit, time_start, filename,
                   pos, nread, now, term, n_resize, off, stdin_off, stdin_len, stdout, frame, calls, log, res, drawn_width>>

AtArg(kind) ==
    /\ pc = "main"
    /\ argi <= Len(argv)
    /\ argv[argi].kind = kind

\* An argument that starts no transfer: a message, failed = 1, continue.
SkipArg(kind, m) ==
    /\ Message(m)
    /\ failed' = 1
    /\ argi' = argi + 1
    /\ res' = [res EXCEPT ![argi].st = kind]
    /\ order' = Append(order, argi)
    /\ UNCHANGED <<pc, argv, exit_code, ws_col, time_start, filename, pos, nread, now,
                   term, n_resize, off, stdin_off, stdin_len, stdout, frame,
                   calls, drawn_width>>

\* Lines 229-233: stat() fails and stores nothing.
StatFail ==
    /\ AtArg("nostat")
    /\ SkipArg("nostat", MSG_PERROR)
    /\ UNCHANGED <<st_size, st_unit>>

\* Lines 229, 234-238: stat() fills st, the path is a directory.
IsDir ==
    /\ AtArg("dir")
    /\ SkipArg("dir", MSG_ISDIR)
    /\ st_size' = argv[argi].size
    /\ st_unit' = 1

\* Lines 229, 239-244: stat() fills st, open() fails.
OpenFail ==
    /\ AtArg("noopen")
    /\ SkipArg("noopen", MSG_PERROR)
    /\ st_size' = argv[argi].size
    /\ st_unit' = 1

\* start_progress(filename), lines 145-148, with st.st_size = size * unit.
StartProgress(name, size, unit) ==
    /\ time_start' = now
    /\ \E q \in IoctlResults :
        /\ Query(q)
        /\ Rendered(update_progress(name, 0, size, unit, ws_col, q, 0), "start", TRUE)

\* cat() up to the loop, lines 176-177, reading from offset o.
CatEnter(size, unit, o) ==
    /\ filename' = DisplayName(argv[argi])
    /\ StartProgress(DisplayName(argv[argi]), size, unit)
    /\ pos' = 0
    /\ nread' = 0
    /\ off' = o
    /\ pc' = "cat_read"
    /\ res' = [res EXCEPT ![argi] = [NoRes EXCEPT !.st = "running", !.base = o]]
    /\ order' = Append(order, argi)
    /\ UNCHANGED <<argv, argi, failed, exit_code, now, stdin_off, stdin_len, stdout>>

\* Lines 225-226: cat("<stdin>", FD_IN); st is not touched.
CatStdin ==
    /\ AtArg("stdin")
    /\ CatEnter(st_size, st_unit, stdin_off)
    /\ UNCHANGED <<st_size, st_unit>>

\* Lines 229-245: stat() and open() succeed, cat(argv[i], fd).
CatFile ==
    /\ AtArg("file")
    /\ st_size' = argv[argi].size
    /\ st_unit' = 1
    /\ CatEnter(argv[argi].size, 1, 0)

-----------------------------------------------------------------------------
(* cat(): lines 170-195 *)

\* A write counted as done when it took any byte.
WriteOkAny(k, n) == k > 0

\* Line 179: write(FD_OUT, buffer, nread) == nread.
WriteOk(k, n) == k = n

\* An update after every block.
ShouldUpdateAlways(prev_pos, p) == p > prev_pos

\* Line 182.
ShouldUpdate(prev_pos, p) == Shr20(p) > Shr20(prev_pos)

\* A status that reports read errors only.
CatStatusReadOnly(n) == IF n < 0 THEN 1 ELSE 0

\* Lines 189-194: cat()'s return value.
CatStatus(n) == IF n # 0 THEN 1 ELSE 0

\* Line 178, read() returning 0 or -1: the loop ends.
CatStop ==
    /\ pc = "cat_read"
    /\ \E dt \in ReadDelays(off), n \in ReadResults(off, CurLen) :
        /\ n <= 0
        /\ now' = now + dt
        /\ nread' = n
        /\ res' = [res EXCEPT ![argi].st = IF n = 0 THEN "eof" ELSE "rderr"]
    /\ pc' = "cat_final"
    /\ out' = <<>>
    /\ UNCHANGED <<order, argv, argi, failed, exit_code, ws_col, st_size, st_unit, time_start,
                   filename, pos, term, n_resize, off, stdin_off, stdin_len, stdout, frame, calls, log, drawn_width>>

\* Lines 178-185, read() returning a block: the write, and the loop body when
\* the write took the whole block.
CatBlock ==
    /\ pc = "cat_read"
    /\ \E dt \in ReadDelays(off), n \in ReadResults(off, CurLen) :
        /\ n > 0
        /\ now' = now + dt
        /\ nread' = n
        /\ off' = off + n
        /\ \E k \in WriteResults(pos, n) :
            /\ stdout' = StdoutAppend(stdout, argi, off, k)
            /\ res' = [res EXCEPT ![argi].rd = @ + n,
                                  ![argi].full = IF k = n THEN @ + n ELSE @,
                                  ![argi].part = IF k = n THEN @ ELSE @ + Max(k, 0),
                                  ![argi].st = IF k = n THEN @ ELSE "wrerr"]
            /\ IF WriteOk(k, n)
               THEN /\ pos' = pos + n
                    /\ pc' = "cat_read"
                    /\ IF ShouldUpdate(pos, pos + n)
                       THEN \E q \in IoctlResults :
                              /\ Query(q)
                              /\ Rendered(update_progress(filename, pos + n, st_size,
                                             st_unit, ws_col, q, now + dt - time_start),
                                          "loop", FALSE)
                       ELSE /\ out' = <<>>
                            /\ UNCHANGED <<ws_col, term, n_resize, frame, calls, log,
                                           drawn_width>>
               ELSE /\ pc' = "cat_final"
                    /\ out' = <<>>
                    /\ UNCHANGED <<pos, ws_col, term, n_resize, frame, calls, log,
                                   drawn_width>>
    /\ UNCHANGED <<order, argv, argi, failed, exit_code, st_size, st_unit, time_start, filename,
                   stdin_off, stdin_len>>

\* Line 187: the final update.
CatFinal ==
    /\ pc = "cat_final"
    /\ \E q \in IoctlResults :
        /\ Query(q)
        /\ Rendered(update_progress(filename, pos, st_size, st_unit, ws_col, q,
                                    now - time_start), "final", FALSE)
    /\ pc' = "cat_end"
    /\ UNCHANGED <<order, argv, argi, failed, exit_code, st_size, st_unit, time_start, filename,
                   pos, nread, now, off, stdin_off, stdin_len, stdout, res>>

\* A newline only after a loop that ended at end-of-file.
EndProgressOnSuccess ==
    IF nread = 0
    THEN /\ out' = <<NL>>
         /\ log' = LogAdd(log, "N", argi)
    ELSE /\ out' = <<>>
         /\ log' = log

\* end_progress(), lines 150-152.
EndProgress ==
    /\ out' = <<NL>>
    /\ log' = LogAdd(log, "N", argi)

\* Line 188.
CatEnd ==
    /\ pc = "cat_end"
    /\ EndProgress
    /\ pc' = "cat_ret"
    /\ UNCHANGED <<order, argv, argi, failed, exit_code, ws_col, st_size, st_unit, time_start,
                   filename, pos, nread, now, term, n_resize, off, stdin_off, stdin_len,
                   stdout, frame, calls, res, drawn_width>>

\* Lines 189-194, and main's failed |= cat(...); close(fd); continue.
CatReturn ==
    /\ pc = "cat_ret"
    /\ IF CatStatus(nread) = 1
       THEN /\ Message(MSG_PERROR)
            /\ failed' = 1
       ELSE /\ out' = <<>>
            /\ log' = log
            /\ failed' = failed
    /\ argi' = argi + 1
    /\ pc' = "main"
    /\ stdin_off' = IF argv[argi].kind = "stdin" THEN off ELSE stdin_off
    /\ res' = res
    /\ frame' = NoFrame(ws_col, 0)
    /\ calls' = <<>>
    /\ UNCHANGED <<order, argv, exit_code, ws_col, st_size, st_unit, time_start, filename, pos,
                   nread, now, term, n_resize, off, stdin_len, stdout, 
                    drawn_width>>

-----------------------------------------------------------------------------
(* run_test(): lines 155-166.  pos and st.st_size are both in units of     *)
(* TEST_UNIT bytes here, and every number the renderer derives from them    *)
(* (pos < size, 100 * pos / size, elapsed * (size - pos) / pos,             *)
(* width * pos / size) is the same in either unit.                          *)

RunTestStart ==
    /\ AtArg("test")
    /\ filename' = TEST_FILENAME
    /\ pos' = 0
    /\ st_size' = TEST_SIZE
    /\ st_unit' = TEST_UNIT
    /\ StartProgress(TEST_FILENAME, TEST_SIZE, 1)
    /\ pc' = "test_loop"
    /\ res' = [res EXCEPT ![argi].st = "test"]
    /\ order' = Append(order, argi)
    /\ UNCHANGED <<argv, argi, failed, exit_code, nread, now, off, stdin_off, stdin_len,
                   stdout>>

\* Lines 160-164: one iteration; sleep(1) moves the clock by a second.
TestStep ==
    /\ pc = "test_loop"
    /\ pos < st_size
    /\ now' = now + 1
    /\ pos' = pos + TEST_STEP
    /\ \E q \in IoctlResults :
        /\ Query(q)
        /\ Rendered(update_progress(filename, pos + TEST_STEP, st_size, 1, ws_col, q,
                                    now + 1 - time_start), "loop", FALSE)
    /\ UNCHANGED <<order, pc, argv, argi, failed, exit_code, st_size, st_unit, time_start,
                   filename, nread, off, stdin_off, stdin_len, stdout, res>>

\* Line 160 false, line 165, and main's continue.
TestEnd ==
    /\ pc = "test_loop"
    /\ ~(pos < st_size)
    /\ EndProgress
    /\ argi' = argi + 1
    /\ pc' = "main"
    /\ frame' = NoFrame(ws_col, 0)
    /\ calls' = <<>>
    /\ UNCHANGED <<order, argv, failed, exit_code, ws_col, st_size, st_unit, time_start,
                   filename, pos, nread, now, term, n_resize, off, stdin_off, stdin_len,
                   stdout, res, drawn_width>>

-----------------------------------------------------------------------------

Next ==
    \/ Startup
    \/ MainExit
    \/ StatFail
    \/ IsDir
    \/ OpenFail
    \/ CatStdin
    \/ CatFile
    \/ CatStop
    \/ CatBlock
    \/ CatFinal
    \/ CatEnd
    \/ CatReturn
    \/ RunTestStart
    \/ TestStep
    \/ TestEnd

Spec == Init /\ [][Next]_vars

-----------------------------------------------------------------------------
(* SpecRender: one call of update_progress() *)

RNames ==
    { <<"f">>,
      <<"d","i","r","/","s","u","b","/","n","a","m","e",".","t","x","t">>,
      <<"a","v","e","r","y","l","o","n","g","n","a","m","e">> }
RSizes == {0, 1, 2, 3, 100, 2 ^ MIB_SHIFT}
RPositions == {0, 1, 2, 3, 7, 99, 100, 101, 429540, 2 ^ MIB_SHIFT}
RElapsed == {0, 1, 59, 600, 5998, 5999}
RPrevWidths == {20, 80}
RTerms == {IoctlFail, 0, 1, 15, 16, 17, 18, 19, 20, 40, 80, MAX_WIDTH,
           MAX_WIDTH + 1, 65535}

InitRender ==
    /\ pc = "render"
    /\ argv = <<>>
    /\ argi = 1
    /\ failed = 0
    /\ exit_code = -1
    /\ ws_col \in RPrevWidths
    /\ st_size \in RSizes
    /\ st_unit = 1
    /\ time_start = 0
    /\ filename \in RNames
    /\ pos \in RPositions
    /\ nread = 0
    /\ now \in RElapsed
    /\ st_size <= 2147483647 \div Max(now, 1)
    /\ term \in RTerms
    /\ n_resize = 0
    /\ off = 0
    /\ stdin_off = 0
    /\ stdin_len = 0
    /\ out = <<>>
    /\ stdout = <<>>
    /\ frame = NoFrame(ws_col, 0)
    /\ calls = <<>>
    /\ log = <<>>
    /\ res = <<>>
    /\ order = <<>>
    /\ drawn_width = ws_col

RenderCall ==
    /\ pc = "render"
    /\ Rendered(update_progress(filename, pos, st_size, st_unit, ws_col, term,
                                now - time_start), "call", TRUE)
    /\ pc' = "rendered"
    /\ UNCHANGED <<order, argv, argi, failed, exit_code, st_size, st_unit, time_start, filename,
                   pos, nread, now, term, n_resize, off, stdin_off, stdin_len, stdout,
                   res>>

NextRender == RenderCall

SpecRender == InitRender /\ [][NextRender]_vars

-----------------------------------------------------------------------------
(* What a frame shows *)

\* The visible characters among tokens t.
IsVisible(c) == c \notin Controls
Visible(t) == SelectSeq(t, IsVisible)
IndexOf(t, c) == CHOOSE k \in 1..Len(t) : t[k] = c
Has(t, c) == \E k \in 1..Len(t) : t[k] = c

\* Columns printed after the switch to the blue background, and before it (on
\* the green background the frame starts with).
BlueCols(t) ==
    IF Has(t, BLUE)
    THEN Len(Visible(SubSeq(t, IndexOf(t, BLUE), Len(t))))
    ELSE 0
GreenCols(t) == Len(Visible(t)) - BlueCols(t)

RenderedFrame == pc = "rendered" /\ frame.drawn

-----------------------------------------------------------------------------
\* C4: the percentage is floor(100 * position / size) for 0 <= position <= size
\* and size > 0 (100 at position = size), 100 for size = 0, and for every
\* position within 0..100 and 100 once position >= size.
C4_Percentage ==
    RenderedFrame =>
        /\ (st_size > 0 /\ pos <= st_size) =>
              /\ frame.percentage * st_size <= 100 * pos
              /\ 100 * pos < (frame.percentage + 1) * st_size
        /\ (st_size > 0 /\ pos = st_size) => frame.percentage = 100
        /\ st_size = 0 => frame.percentage = 100
        /\ frame.percentage \in 0..100
        /\ pos >= st_size => frame.percentage = 100

C4_Witness ==
    RenderedFrame /\ st_size = 3 /\ pos = 2 /\ frame.percentage = 66

\* C5: minutes and seconds are both 0 exactly when position >= size; they are
\* 99:99 when position = 0 < size and when the estimate
\* elapsed * (size - position) / position + 1 is >= 6000; otherwise they are
\* (estimate / 60, estimate % 60), seconds within 0..59, minutes within 0..99.
C5_Eta ==
    RenderedFrame =>
        LET e == now - time_start
        IN  /\ (frame.minutes = 0 /\ frame.seconds = 0) <=> pos >= st_size
            /\ (pos = 0 /\ 0 < st_size) => (frame.minutes = 99 /\ frame.seconds = 99)
            /\ (0 < pos /\ pos < st_size) =>
                  LET estimate == (e * (st_size - pos)) \div pos + 1
                  IN  IF estimate >= 6000
                      THEN frame.minutes = 99 /\ frame.seconds = 99
                      ELSE /\ frame.minutes = estimate \div 60
                           /\ frame.seconds = estimate % 60
                           /\ frame.seconds \in 0..59
                           /\ frame.minutes \in 0..99

C5_Witness ==
    /\ RenderedFrame
    /\ 0 < pos /\ pos < st_size
    /\ now - time_start = 5998
    /\ frame.minutes = 99 /\ frame.seconds = 59

\* C6: for a width w within 1..9999 one call prints exactly w visible
\* characters, all before the carriage return, the trailer at the right end
\* (its first w characters when it is longer than w), and stores into the
\* line buffer only at indices 0..w; when the query fails or the width is
\* <= 0 or > 9999 the call writes nothing.
C6_LineWidth ==
    pc = "rendered" =>
        IF term \in 1..MAX_WIDTH
        THEN /\ frame.drawn
             /\ Len(Visible(out)) = term
             /\ Has(out, CR)
             /\ Len(Visible(SubSeq(out, 1, IndexOf(out, CR)))) = term
             /\ LET vis == Visible(out)
                IN  IF term >= 16
                    THEN vis[term] = "%" /\ vis[term - 15] = "["
                    ELSE vis[1] = "[" /\ (term >= 4 => vis[4] = "A")
             /\ frame.buf_lo >= 0
             /\ frame.buf_hi <= term
        ELSE out = <<>> /\ ~frame.drawn

C6_Witness ==
    /\ pc = "rendered"
    /\ term = 15
    /\ Len(Visible(out)) = 15
    /\ frame.buf_hi = 15

C7_WrappedCrossOver ==
    /\ RenderedFrame
    /\ st_size = 1 /\ pos = 429540 /\ frame.width = MAX_WIDTH
    /\ frame.x = 3164
    /\ BlueCols(out) = MAX_WIDTH - 3164

-----------------------------------------------------------------------------
(* What a run of main() leaves behind *)

Failures == {"nostat", "dir", "noopen", "rderr", "wrerr"}
Started == {"running", "test", "eof", "rderr", "wrerr"}
InCat == pc \in {"cat_read", "cat_final", "cat_end", "cat_ret"}

\* Bytes source j holds before end-of-file.
SrcLen(j) == IF argv[j].kind = "stdin" THEN stdin_len ELSE argv[j].len

RECURSIVE Segments(_, _)
\* Standard output when argument i contributes W[i] bytes from the offset its
\* reading began at, for the arguments j, j + 1, ...
Segments(W, j) ==
    IF j > Len(W) THEN <<>>
    ELSE (IF W[j] > 0
          THEN <<[src |-> j, lo |-> res[j].base, hi |-> res[j].base + W[j]]>>
          ELSE <<>>) \o Segments(W, j + 1)

\* Positions of the entries of kind k of argument a in the error stream history.
LogIdx(k, a) == {i \in 1..Len(log) : log[i] = [k |-> k, a |-> a]}

\* The transfer of argument j has written its newline.
Ended(j) == res[j].st \in Started /\ (j < argi \/ pc = "cat_ret")

LoopCalls == {i \in 1..Len(calls) : calls[i][1] = "loop"}

\* A step that calls update_progress().
RenderStep == calls' # calls /\ calls' # <<>>

-----------------------------------------------------------------------------
\* C1 as stated: standard output is the concatenation, in argument order, of
\* the bytes read from each source.
C1_AsStated ==
    stdout = Segments([j \in DOMAIN res |-> res[j].rd], 1)

\* C1: standard output is the concatenation, in argument order, of what each
\* source contributed: its full contents when read to end-of-file, exactly the
\* blocks read before the failure when its read fails, and, when a write does
\* not take a whole block, the blocks written whole before it followed by the
\* part of that block the write did take.  Inside cat() pos is the number of
\* bytes read and written whole; skipped arguments and the self-test add none.
C1_Stdout ==
    /\ stdout = Segments([j \in DOMAIN res |-> res[j].full + res[j].part], 1)
    /\ \A j \in DOMAIN res :
        /\ res[j].st = "eof" =>
              /\ res[j].base + res[j].full = SrcLen(j)
              /\ res[j].part = 0
              /\ res[j].rd = res[j].full
        /\ res[j].st = "rderr" => (res[j].full = res[j].rd /\ res[j].part = 0)
        /\ res[j].st = "wrerr" => res[j].full + res[j].part < res[j].rd
        /\ res[j].st \in {"pending", "nostat", "dir", "noopen", "test"} =>
              (res[j].rd = 0 /\ res[j].full = 0 /\ res[j].part = 0)
    /\ InCat => pos = res[argi].full

C1_Witness ==
    /\ pc = "done"
    /\ Len(stdout) = 2
    /\ \E j \in DOMAIN res : res[j].st = "wrerr" /\ res[j].part > 0

\* C2: after startup every argument is dispatched exactly once, in order; the
\* exit code is 1 exactly when some argument failed (stat, directory, open,
\* read error, write short or failed) and 0 otherwise; a directory leaves one
\* message, no frame, no newline and no byte, and later arguments still run;
\* the self-test is no failure.
C2_ExitCode ==
    /\ order = [k \in 1..Len(order) |-> k]
    /\ pc = "main" => Len(order) = argi - 1
    /\ pc \in {"main", "done"} =>
          failed = IF \E j \in 1..(argi - 1) : res[j].st \in Failures THEN 1 ELSE 0
    /\ pc = "done" =>
          /\ Len(order) = Len(argv)
          /\ \A j \in DOMAIN res : res[j].st # "pending" /\ res[j].st # "running"
          /\ exit_code = IF \E j \in DOMAIN res : res[j].st \in Failures THEN 1 ELSE 0
    /\ \A j \in DOMAIN res :
          (argv[j].kind = "dir" /\ j < argi) =>
              /\ res[j].st = "dir"
              /\ Cardinality(LogIdx("M", j)) = 1
              /\ LogIdx("F", j) = {} /\ LogIdx("N", j) = {}
              /\ \A i \in 1..Len(stdout) : stdout[i].src # j

C2_Witness ==
    /\ pc = "done"
    /\ exit_code = 1
    /\ Len(argv) = 2
    /\ argv[1].kind = "dir"
    /\ res[2].st = "eof"
    /\ stdout # <<>>

\* C3 as stated: every frame drawn during a standard-input transfer shows
\* 100%, wherever "-" stands in the argument list.
C3_AsStated ==
    (InCat /\ argv[argi].kind = "stdin" /\ frame.drawn) => frame.percentage = 100

\* C8: every transfer that started ends with exactly one newline, after all
\* its frames, before its error message and before anything of a later
\* argument; what follows a frame on the error stream is a frame of the same
\* transfer or that newline, never a message or another transfer's frame.
C8_Newline ==
    /\ \A j \in DOMAIN res :
        /\ Cardinality(LogIdx("N", j)) = IF Ended(j) THEN 1 ELSE 0
        /\ \A n \in LogIdx("N", j) :
              /\ \A f \in LogIdx("F", j) : f < n
              /\ \A m \in LogIdx("M", j) : m > n
              /\ \A i \in 1..Len(log) : log[i].a > j => i > n
        /\ (res[j].st \in {"rderr", "wrerr"} /\ j < argi) => LogIdx("M", j) # {}
    /\ \A i \in 2..Len(log) : log[i - 1].k = "F" => log[i].k = "N"

C8_Witness ==
    /\ pc = "cat_read"
    /\ argi = 2
    /\ res[1].st = "rderr"
    /\ LogIdx("F", 1) # {} /\ LogIdx("N", 1) # {} /\ LogIdx("M", 1) # {}
    /\ LogIdx("F", 2) # {}

\* C9: within one cat() the renderer is called once at position 0 before the
\* first read, after a block written whole exactly when floor(pos / 2^20)
\* increased (so at most floor(total / 2^20) times), and once after the loop
\* with the number of bytes read and written whole, however the loop ended;
\* positions never decrease.
C9_Renders ==
    InCat =>
        /\ Len(calls) >= 1
        /\ calls[1][1] = "start" /\ calls[1][2] = 0
        /\ \A i \in 2..Len(calls) : calls[i][1] # "start"
        /\ \A i \in LoopCalls : Shr20(calls[i][2]) > Shr20(calls[i - 1][2])
        /\ Cardinality(LoopCalls) <= Shr20(res[argi].full)
        /\ pc = "cat_read" => Shr20(calls[Len(calls)][2]) = Shr20(res[argi].full)
        /\ IF pc \in {"cat_end", "cat_ret"}
           THEN /\ calls[Len(calls)][1] = "final"
                /\ calls[Len(calls)][2] = res[argi].full
                /\ \A i \in 1..(Len(calls) - 1) : calls[i][1] # "final"
           ELSE \A i \in 1..Len(calls) : calls[i][1] # "final"
        /\ \A i \in 2..Len(calls) : calls[i][2] >= calls[i - 1][2]

C9_Witness ==
    /\ pc = "cat_ret"
    /\ Len(calls) = 3
    /\ calls[2][1] = "loop" /\ calls[2][2] = 2 ^ MIB_SHIFT + 1
    /\ calls[3][1] = "final" /\ calls[3][2] = BigLen

\* C10 as stated: a drawn frame is preceded by the clear sequence exactly
\* when its width differs from the width of the last frame drawn before it (the
\* startup width before any frame).
C10_AsStated ==
    [][(RenderStep /\ frame'.drawn) =>
          (frame'.clear <=> frame'.width # drawn_width)]_vars

\* C10: a drawn frame is preceded by the clear sequence exactly when its
\* width differs from ws.ws_col as the last width query that succeeded left it,
\* at startup or in an earlier call, drawn or skipped; a skipped call writes
\* nothing and leaves the width of the last drawn frame as it was, but when it
\* was skipped for an out-of-range width it has stored that width in ws.ws_col.
C10_Clear ==
    [][RenderStep =>
          IF frame'.drawn
          THEN /\ frame'.clear <=> frame'.width # ws_col
               /\ (Head(out') = CLEAR) <=> frame'.clear
               /\ ws_col' = frame'.width
               /\ drawn_width' = frame'.width
          ELSE /\ out' = <<>>
               /\ drawn_width' = drawn_width
               /\ ws_col' = IF term' = IoctlFail THEN ws_col ELSE term']_vars

\* A frame of the width of the frame before it, cleared for because a skipped
\* call in between stored an out-of-range width.
C10_Witness ==
    /\ Len(calls) = 3
    /\ calls[1][3] = 20 /\ calls[2][3] = 0 /\ calls[3][3] = 20
    /\ frame.drawn /\ frame.clear
    /\ ws_col = 20

====
